---- MODULE Spec2Model ----
(***************************************************************************)
(* State-machine model of the emulated CPU of src/src/main.rs and          *)
(* src/src/memory.rs: the loader (append_instructions), the dispatcher     *)
(* (handle_instruction) and the execution loop (execute).                  *)
(*                                                                         *)
(* Encoding.  An InstructionArgument is a tuple <<"Stack", n>>,            *)
(* <<"Register", name>> or <<"Value", v>>.  A CpuInstruction is a tuple    *)
(* <<"Add", a, b>>, <<"Sub", a, b>>, <<"Mov", from, to>>, <<"Eq", a, b>>,  *)
(* <<"Fn", name>>, <<"Ret">>, <<"Call", name>>, <<"Goto", n>>,             *)
(* <<"If", cond, first, second>> or <<"Exit">>.  Positions are 0-based as  *)
(* in the source; TLA+ sequences are 1-based, hence the "+ 1" on indexing. *)
(* A Rust panic is recorded in the variable panic and ends the run.        *)
(***************************************************************************)
EXTENDS Integers, Sequences, FiniteSets, TLC

VARIABLES
    status,               \* CpuState.status
    instruction_cache,    \* CpuState.instruction_cache
    instruction_pointer,  \* CpuState.instruction_pointer
    registers,            \* CpuState.registers
    memory,               \* CpuState.memory.stack, index 1 is the current sub stack
    function_table,       \* CpuState.function_table
    overflow_checks,      \* build profile: are u16 overflows checked (debug) or wrapped (release)
    pc,                   \* position of the program: "loading", "running", "done", "panicked"
    panic,                \* "none" or the kind of the panic that ended the run
    trace,                \* lines printed by the loop: <<instruction_pointer, res>>
    fetched,              \* positions of the instructions fetched by the loop, in order
    summary,              \* what the line printed after the loop reports, by field
    loads                 \* number of append_instructions calls made by the caller

vars == <<status, instruction_cache, instruction_pointer, registers, memory,
          function_table, overflow_checks, pc, panic, trace, fetched, summary, loads>>

----------------------------------------------------------------------------
(* Bounds *)

MaxLoads == 2
MaxSteps == 45
MaxSlot == 3

----------------------------------------------------------------------------
(* Program constants *)

U16Modulus == 65536

RegisterNames == {"a", "b", "c", "d", "res"}

Stack(n) == <<"Stack", n>>
Register(name) == <<"Register", name>>
Value(v) == <<"Value", v>>

Add(a, b) == <<"Add", a, b>>
Sub(a, b) == <<"Sub", a, b>>
Mov(from, to) == <<"Mov", from, to>>
Eq(a, b) == <<"Eq", a, b>>
Fn(name) == <<"Fn", name>>
Ret == <<"Ret">>
Call(name) == <<"Call", name>>
Goto(n) == <<"Goto", n>>
If(c, first, second) == <<"If", c, first, second>>
Exit == <<"Exit">>

----------------------------------------------------------------------------
(* The CPU as a value: what handle_instruction reads and writes of self *)

Cpu ==
    [instruction_pointer |-> instruction_pointer,
     registers |-> registers,
     memory |-> memory,
     status |-> status,
     function_table |-> function_table,
     overflow_checks |-> overflow_checks,
     panic |-> "none"]

Panic(s, kind) == [s EXCEPT !.panic = kind]

\* u16 arithmetic: n is the mathematical result of a + b, a - b or p + 1.
\* A checked build panics when it does not fit, an unchecked build wraps.
U16(s, n) ==
    IF n >= 0 /\ n < U16Modulus
    THEN [s |-> s, value |-> n]
    ELSE IF s.overflow_checks
         THEN [s |-> Panic(s, "ArithmeticOverflow"), value |-> 0]
         ELSE [s |-> s, value |-> n % U16Modulus]

----------------------------------------------------------------------------
(* memory.rs *)

SubStack(return_address) == [return_address |-> return_address, data |-> <<>>]

\* create_new_sub_stack pushing at the far end of the stack
create_new_sub_stack_mut(s, return_address) ==
    [s EXCEPT !.memory = s.memory \o <<SubStack(return_address)>>]

create_new_sub_stack(s, return_address) ==
    [s EXCEPT !.memory = <<SubStack(return_address)>> \o s.memory]

\* write_data growing the locals with the written value as the filler
write_data_mut(s, address, data) ==
    IF s.memory = <<>>
    THEN Panic(s, "EmptyCallStack")
    ELSE LET old == s.memory[1].data
             grown == IF address >= Len(old)
                      THEN old \o [k \in 1..(address + 1 - Len(old)) |-> data]
                      ELSE old
         IN [s EXCEPT !.memory[1].data = [grown EXCEPT ![address + 1] = data]]

write_data(s, address, data) ==
    IF s.memory = <<>>
    THEN Panic(s, "EmptyCallStack")
    ELSE LET old == s.memory[1].data
             grown == IF address >= Len(old)
                      THEN old \o [k \in 1..(address + 1 - Len(old)) |-> 0]
                      ELSE old
         IN [s EXCEPT !.memory[1].data = [grown EXCEPT ![address + 1] = data]]

\* rewind_stack removing the frame at the far end of the stack
rewind_stack_mut(s) ==
    IF s.memory = <<>>
    THEN Panic(s, "EmptyCallStack")
    ELSE [s EXCEPT !.memory = SubSeq(s.memory, 1, Len(s.memory) - 1)]

rewind_stack(s) ==
    IF s.memory = <<>>
    THEN Panic(s, "EmptyCallStack")
    ELSE [s EXCEPT !.memory = Tail(s.memory)]

----------------------------------------------------------------------------
(* main.rs: loader *)

RECURSIVE register_functions(_, _, _)
register_functions(table, instructions, i) ==
    IF i >= Len(instructions)
    THEN table
    ELSE LET instruction == instructions[i + 1]
             next == IF instruction[1] = "Fn"
                     THEN [n \in DOMAIN table \cup {instruction[2]} |->
                             IF n = instruction[2] THEN i % U16Modulus ELSE table[n]]
                     ELSE table
         IN register_functions(next, instructions, i + 1)

----------------------------------------------------------------------------
(* main.rs: dispatcher *)

\* fetch_argument_value reading 0 as a fallback when there is no sub stack
fetch_argument_value_mut(s, argument) ==
    CASE argument[1] = "Stack" ->
           IF s.memory = <<>>
           THEN [s |-> s, value |-> 0]
           ELSE LET s1 == IF argument[2] >= Len(s.memory[1].data)
                          THEN write_data(s, argument[2], 0)
                          ELSE s
                IN [s |-> s1, value |-> s1.memory[1].data[argument[2] + 1]]
      [] argument[1] = "Register" ->
           IF argument[2] \in RegisterNames
           THEN [s |-> s, value |-> s.registers[argument[2]]]
           ELSE [s |-> Panic(s, "UnknownRegister"), value |-> 0]
      [] argument[1] = "Value" -> [s |-> s, value |-> argument[2]]

fetch_argument_value(s, argument) ==
    CASE argument[1] = "Stack" ->
           IF s.memory = <<>>
           THEN [s |-> Panic(s, "EmptyCallStack"), value |-> 0]
           ELSE LET s1 == IF argument[2] >= Len(s.memory[1].data)
                          THEN write_data(s, argument[2], 0)
                          ELSE s
                IN [s |-> s1, value |-> s1.memory[1].data[argument[2] + 1]]
      [] argument[1] = "Register" ->
           IF argument[2] \in RegisterNames
           THEN [s |-> s, value |-> s.registers[argument[2]]]
           ELSE [s |-> Panic(s, "UnknownRegister"), value |-> 0]
      [] argument[1] = "Value" -> [s |-> s, value |-> argument[2]]

\* Both arguments of a binary instruction, the first resolved first.
fetch_two(s, a, b) ==
    LET ra == fetch_argument_value(s, a)
    IN IF ra.s.panic # "none"
       THEN [s |-> ra.s, a |-> 0, b |-> 0]
       ELSE LET rb == fetch_argument_value(ra.s, b)
            IN [s |-> rb.s, a |-> ra.value, b |-> rb.value]

\* set_res storing into the first general register
set_res_mut(r) ==
    IF r.s.panic # "none" THEN r.s ELSE [r.s EXCEPT !.registers.a = r.value]

set_res(r) ==
    IF r.s.panic # "none" THEN r.s ELSE [r.s EXCEPT !.registers.res = r.value]

\* handle_add with the operator of handle_sub
handle_add_mut(s, a, b) ==
    LET r == fetch_two(s, a, b)
    IN IF r.s.panic # "none" THEN r.s ELSE set_res(U16(r.s, r.a - r.b))

handle_add(s, a, b) ==
    LET r == fetch_two(s, a, b)
    IN IF r.s.panic # "none" THEN r.s ELSE set_res(U16(r.s, r.a + r.b))

handle_sub(s, a, b) ==
    LET r == fetch_two(s, a, b)
    IN IF r.s.panic # "none" THEN r.s ELSE set_res(U16(r.s, r.a - r.b))

\* handle_eq comparing the first argument with itself
handle_eq_mut(s, first, second) ==
    LET r == fetch_two(s, first, second)
    IN IF r.s.panic # "none"
       THEN r.s
       ELSE [r.s EXCEPT !.registers.res = IF r.a = r.a THEN 1 ELSE 0]

handle_eq(s, first, second) ==
    LET r == fetch_two(s, first, second)
    IN IF r.s.panic # "none"
       THEN r.s
       ELSE [r.s EXCEPT !.registers.res = IF r.a = r.b THEN 1 ELSE 0]

\* handle_mov pushing the moved value to res as well
handle_mov_mut(s, from, to) ==
    LET r == fetch_argument_value(s, from)
    IN IF r.s.panic # "none"
       THEN r.s
       ELSE CASE to[1] = "Stack" ->
                   set_res([s |-> write_data(r.s, to[2], r.value), value |-> r.value])
              [] to[1] = "Register" ->
                   IF to[2] \in RegisterNames
                   THEN set_res([s |-> [r.s EXCEPT !.registers[to[2]] = r.value],
                                 value |-> r.value])
                   ELSE Panic(r.s, "UnknownRegister")
              [] to[1] = "Value" -> Panic(r.s, "InvalidMovDestination")

handle_mov(s, from, to) ==
    LET r == fetch_argument_value(s, from)
    IN IF r.s.panic # "none"
       THEN r.s
       ELSE CASE to[1] = "Stack" -> write_data(r.s, to[2], r.value)
              [] to[1] = "Register" ->
                   IF to[2] \in RegisterNames
                   THEN [r.s EXCEPT !.registers[to[2]] = r.value]
                   ELSE Panic(r.s, "UnknownRegister")
              [] to[1] = "Value" -> Panic(r.s, "InvalidMovDestination")

\* handle_ret with the return address taken as the position to resume at
handle_ret_mut(s) ==
    IF s.memory = <<>>
    THEN Panic(s, "EmptyCallStack")
    ELSE LET return_address == s.memory[1].return_address
         IN [rewind_stack(s) EXCEPT !.instruction_pointer = return_address + 1]

handle_ret(s) ==
    IF s.memory = <<>>
    THEN Panic(s, "EmptyCallStack")
    ELSE LET return_address == s.memory[1].return_address
         IN [rewind_stack(s) EXCEPT !.instruction_pointer = return_address]

\* handle_call recording the position after the call as the return address
handle_call_next_mut(s, fn_name) ==
    LET s1 == create_new_sub_stack(s, s.instruction_pointer + 1)
    IN IF fn_name \in DOMAIN s1.function_table
       THEN [s1 EXCEPT !.instruction_pointer = s1.function_table[fn_name]]
       ELSE Panic(s1, "UnknownFunction")

\* handle_call staying in place when the name is not in the table
handle_call_mut(s, fn_name) ==
    LET s1 == create_new_sub_stack(s, s.instruction_pointer)
    IN IF fn_name \in DOMAIN s1.function_table
       THEN [s1 EXCEPT !.instruction_pointer = s1.function_table[fn_name]]
       ELSE s1

handle_call(s, fn_name) ==
    LET s1 == create_new_sub_stack(s, s.instruction_pointer)
    IN IF fn_name \in DOMAIN s1.function_table
       THEN [s1 EXCEPT !.instruction_pointer = s1.function_table[fn_name]]
       ELSE Panic(s1, "UnknownFunction")

handle_goto(s, new_address) == [s EXCEPT !.instruction_pointer = new_address]

handle_exit(s) == [s EXCEPT !.status = "Exiting"]

\* handle_instruction taking the first branch of an If only for the value 1
RECURSIVE handle_instruction_mut(_, _)
handle_instruction_mut(s, instruction) ==
    CASE instruction[1] = "Add" -> handle_add(s, instruction[2], instruction[3])
      [] instruction[1] = "Sub" -> handle_sub(s, instruction[2], instruction[3])
      [] instruction[1] = "Mov" -> handle_mov(s, instruction[2], instruction[3])
      [] instruction[1] = "Eq" -> handle_eq(s, instruction[2], instruction[3])
      [] instruction[1] = "Fn" -> s
      [] instruction[1] = "Ret" -> handle_ret(s)
      [] instruction[1] = "Call" -> handle_call(s, instruction[2])
      [] instruction[1] = "Goto" -> handle_goto(s, instruction[2])
      [] instruction[1] = "If" ->
           LET r == fetch_argument_value(s, instruction[2])
           IN IF r.s.panic # "none"
              THEN r.s
              ELSE IF r.value = 1
                   THEN handle_instruction_mut(r.s, instruction[3])
                   ELSE handle_instruction_mut(r.s, instruction[4])
      [] instruction[1] = "Exit" -> handle_exit(s)

RECURSIVE handle_instruction(_, _)
handle_instruction(s, instruction) ==
    CASE instruction[1] = "Add" -> handle_add(s, instruction[2], instruction[3])
      [] instruction[1] = "Sub" -> handle_sub(s, instruction[2], instruction[3])
      [] instruction[1] = "Mov" -> handle_mov(s, instruction[2], instruction[3])
      [] instruction[1] = "Eq" -> handle_eq(s, instruction[2], instruction[3])
      [] instruction[1] = "Fn" -> s
      [] instruction[1] = "Ret" -> handle_ret(s)
      [] instruction[1] = "Call" -> handle_call(s, instruction[2])
      [] instruction[1] = "Goto" -> handle_goto(s, instruction[2])
      [] instruction[1] = "If" ->
           LET r == fetch_argument_value(s, instruction[2])
           IN IF r.s.panic # "none"
              THEN r.s
              ELSE IF r.value >= 1
                   THEN handle_instruction(r.s, instruction[3])
                   ELSE handle_instruction(r.s, instruction[4])
      [] instruction[1] = "Exit" -> handle_exit(s)

----------------------------------------------------------------------------
(* Programs handed to append_instructions by the caller *)

EmptyProgram == <<>>

AddProgram == <<Fn("main"), Add(Value(1), Value(1)), Ret>>

\* the program of main(), main.rs lines 283-299
CountingProgram ==
    <<Fn("main"),
      Add(Stack(0), Value(1)),
      Mov(Register("res"), Stack(0)),
      Eq(Stack(0), Value(10)),
      If(Register("res"), Ret, Goto(0))>>

HelperProgram ==
    <<Fn("helper"), Mov(Value(9), Stack(3)), Add(Stack(1), Register("a")), Ret>>

CallerProgram ==
    <<Fn("main"), Mov(Value(7), Stack(1)), Call("helper"),
      If(Stack(1), Call("helper"), Exit), Ret>>

NestedProgram ==
    <<Fn("main"), Mov(Value(7), Stack(1)), Call("f"),
      Mov(Stack(1), Register("a")), If(Register("a"), Call("g"), Exit), Ret,
      Fn("f"), Mov(Value(9), Stack(3)), Sub(Value(3), Value(10)), Call("g"), Ret,
      Fn("g"), Eq(Stack(0), Value(0)),
      If(Register("res"), If(Stack(2), Exit, Ret), Goto(0)), Ret>>

RecursiveProgram ==
    <<Fn("main"), Call("rec"), Ret,
      Fn("rec"), Add(Register("a"), Value(1)), Mov(Register("res"), Register("a")),
      Eq(Register("a"), Value(3)), If(Register("res"), Ret, Call("rec")), Ret>>

UnknownCallProgram == <<Fn("main"), Add(Value(5), Value(7)), Call("nope"), Ret>>

ExitProgram ==
    <<Fn("main"), Mov(Value(2), Register("b")), If(Register("b"), Exit, Ret),
      Add(Value(1), Value(1)), Ret>>

BadMovProgram ==
    <<Fn("main"), Add(Value(65535), Value(1)), Mov(Register("res"), Value(1))>>

GotoFarProgram == <<Fn("main"), Eq(Value(4), Value(5)), Goto(65535)>>

BadRegisterProgram == <<Fn("main"), Eq(Value(4), Value(4)), Add(Register("zz"), Value(1))>>

Programs ==
    <<EmptyProgram, AddProgram, CountingProgram, HelperProgram, CallerProgram,
      NestedProgram, RecursiveProgram, UnknownCallProgram, ExitProgram,
      BadMovProgram, GotoFarProgram, BadRegisterProgram>>

----------------------------------------------------------------------------
(* State machine: new, append_instructions*, execute *)

ZeroRegisters == [a |-> 0, b |-> 0, c |-> 0, d |-> 0, res |-> 0]

Init ==
    /\ status = "NotStarted"
    /\ instruction_cache = <<>>
    /\ instruction_pointer = 0
    /\ registers = ZeroRegisters
    /\ memory = <<>>
    /\ function_table = <<>>
    /\ overflow_checks \in BOOLEAN
    /\ pc = "loading"
    /\ panic = "none"
    /\ trace = <<>>
    /\ fetched = <<>>
    /\ summary = <<>>
    /\ loads = 0

append_instructions(instructions) ==
    /\ function_table' = register_functions(function_table, instructions, 0)
    /\ instruction_cache' = instruction_cache \o instructions

Load ==
    /\ pc = "loading"
    /\ loads < MaxLoads
    /\ \E i \in 1..Len(Programs) : append_instructions(Programs[i])
    /\ loads' = loads + 1
    /\ UNCHANGED <<status, instruction_pointer, registers, memory,
                   overflow_checks, pc, panic, trace, fetched, summary>>

\* execute leaving the pointer where new put it
execute_unmoved_mut ==
    /\ pc = "loading"
    /\ IF "main" \notin DOMAIN function_table
       THEN /\ pc' = "panicked"
            /\ panic' = "MissingMainFunction"
            /\ UNCHANGED <<instruction_cache, function_table, instruction_pointer>>
       ELSE /\ append_instructions(<<Call("main")>>)
            /\ instruction_pointer' = instruction_pointer
            /\ pc' = "running"
            /\ panic' = "none"
    /\ UNCHANGED <<status, registers, memory, overflow_checks, trace, fetched, summary,
                   loads>>

\* execute without the test for "main"
execute_mut ==
    /\ pc = "loading"
    /\ append_instructions(<<Call("main")>>)
    /\ instruction_pointer' = (Len(instruction_cache') - 1) % U16Modulus
    /\ pc' = "running"
    /\ panic' = "none"
    /\ UNCHANGED <<status, registers, memory, overflow_checks, trace, fetched, summary,
                   loads>>

\* execute, up to the loop: the check for "main" and the synthetic Call("main")
execute ==
    /\ pc = "loading"
    /\ IF "main" \notin DOMAIN function_table
       THEN /\ pc' = "panicked"
            /\ panic' = "MissingMainFunction"
            /\ UNCHANGED <<instruction_cache, function_table, instruction_pointer>>
       ELSE /\ append_instructions(<<Call("main")>>)
            /\ instruction_pointer' = (Len(instruction_cache') - 1) % U16Modulus
            /\ pc' = "running"
            /\ panic' = "none"
    /\ UNCHANGED <<status, registers, memory, overflow_checks, trace, fetched, summary,
                   loads>>

\* execute_step without the break on the Exiting status
execute_step_mut ==
    /\ pc = "running"
    /\ instruction_pointer < Len(instruction_cache)
    /\ Len(fetched) < MaxSteps
    /\ LET current_instruction == instruction_cache[instruction_pointer + 1]
           s1 == handle_instruction(Cpu, current_instruction)
           inc == U16(s1, s1.instruction_pointer + 1)
       IN /\ fetched' = Append(fetched, instruction_pointer)
          /\ registers' = s1.registers
          /\ memory' = s1.memory
          /\ status' = s1.status
          /\ IF s1.panic # "none"
             THEN /\ panic' = s1.panic
                  /\ pc' = "panicked"
                  /\ trace' = trace
                  /\ instruction_pointer' = s1.instruction_pointer
             ELSE /\ trace' = Append(trace, <<s1.instruction_pointer, s1.registers.res>>)
                  /\ panic' = inc.s.panic
                  /\ pc' = IF inc.s.panic # "none" THEN "panicked" ELSE "running"
                  /\ instruction_pointer' =
                         IF inc.s.panic # "none" THEN s1.instruction_pointer ELSE inc.value
    /\ UNCHANGED <<instruction_cache, function_table, overflow_checks, summary, loads>>

\* one iteration of the loop of execute that passes the two break tests
execute_step ==
    /\ pc = "running"
    /\ instruction_pointer < Len(instruction_cache)
    /\ status # "Exiting"
    /\ Len(fetched) < MaxSteps
    /\ LET current_instruction == instruction_cache[instruction_pointer + 1]
           s1 == handle_instruction(Cpu, current_instruction)
           inc == U16(s1, s1.instruction_pointer + 1)
       IN /\ fetched' = Append(fetched, instruction_pointer)
          /\ registers' = s1.registers
          /\ memory' = s1.memory
          /\ status' = s1.status
          /\ IF s1.panic # "none"
             THEN /\ panic' = s1.panic
                  /\ pc' = "panicked"
                  /\ trace' = trace
                  /\ instruction_pointer' = s1.instruction_pointer
             ELSE /\ trace' = Append(trace, <<s1.instruction_pointer, s1.registers.res>>)
                  /\ panic' = inc.s.panic
                  /\ pc' = IF inc.s.panic # "none" THEN "panicked" ELSE "running"
                  /\ instruction_pointer' =
                         IF inc.s.panic # "none" THEN s1.instruction_pointer ELSE inc.value
    /\ UNCHANGED <<instruction_cache, function_table, overflow_checks, summary, loads>>

\* the loop of execute breaks and the summary line is printed
execute_end ==
    /\ pc = "running"
    /\ \/ instruction_pointer >= Len(instruction_cache)
       \/ status = "Exiting"
    /\ pc' = "done"
    /\ summary' = [seconds |-> "elapsed"]
    /\ UNCHANGED <<status, instruction_cache, instruction_pointer, registers, memory,
                   function_table, overflow_checks, panic, trace, fetched, loads>>

Next == Load \/ execute \/ execute_step \/ execute_end

Spec == Init /\ [][Next]_vars

TypeOK ==
    /\ status \in {"NotStarted", "Running", "Exiting"}
    /\ pc \in {"loading", "running", "done", "panicked"}
    /\ instruction_pointer \in 0..(U16Modulus - 1)
    /\ \A r \in RegisterNames : registers[r] \in 0..(U16Modulus - 1)
    /\ Len(trace) <= Len(fetched)

----------------------------------------------------------------------------
(* The dispatcher on its own: one instruction of a program whose main is   *)
(* <<Fn("main"), instruction>>, dispatched by the loop from a drawn        *)
(* register file and call stack.                                           *)

ArgValues == {0, 1, 3, 9, 10, 65535}

UnitArguments ==
    {Value(v) : v \in ArgValues}
        \cup {Stack(i) : i \in 0..MaxSlot}
        \cup {Register(r) : r \in {"a", "b", "res", "zz"}}

UnitBranches == {Ret, Exit, Goto(0), Call("main"), Add(Value(1), Stack(1)),
                 If(Stack(0), Ret, Call("nope"))}

UnitInstructions ==
    {<<op, x, y>> : op \in {"Add", "Sub", "Eq", "Mov"}, x \in UnitArguments, y \in UnitArguments}
        \cup {Fn("f"), Ret, Exit, Goto(0), Goto(65535), Call("main"), Call("nope")}
        \cup {If(c, t, e) : c \in {Value(0), Value(2), Stack(2), Register("res")},
                            t \in UnitBranches, e \in UnitBranches}

UnitRegisters ==
    {ZeroRegisters, [a |-> 5, b |-> 65535, c |-> 1, d |-> 2, res |-> 7]}

UnitMemories ==
    {<<>>,
     <<[return_address |-> 0, data |-> <<>>]>>,
     <<[return_address |-> 0, data |-> <<5>>]>>,
     <<[return_address |-> 1, data |-> <<65535, 3>>],
       [return_address |-> 0, data |-> <<4, 4, 4, 4, 4>>]>>}

InitUnit ==
    /\ status = "NotStarted"
    /\ instruction_cache \in {<<Fn("main"), i>> : i \in UnitInstructions}
    /\ instruction_pointer = 1
    /\ registers \in UnitRegisters
    /\ memory \in UnitMemories
    /\ function_table = [n \in {"main"} |-> 0]
    /\ overflow_checks \in BOOLEAN
    /\ pc = "running"
    /\ panic = "none"
    /\ trace = <<>>
    /\ fetched = <<>>
    /\ summary = <<>>
    /\ loads = 1

NextUnit == execute_step \/ execute_end

SpecUnit == InitUnit /\ [][NextUnit]_vars

----------------------------------------------------------------------------
(* Vocabulary of the properties, read off the state without the dispatcher *)

\* an argument that resolves without a frame and without failing
PlainArgument(arg) ==
    arg[1] = "Value" \/ (arg[1] = "Register" /\ arg[2] \in RegisterNames)

\* the value an argument resolves to in the current state
ArgNow(arg) ==
    CASE arg[1] = "Stack" ->
           IF memory # <<>> /\ arg[2] < Len(memory[1].data)
           THEN memory[1].data[arg[2] + 1]
           ELSE 0
      [] arg[1] = "Register" -> IF arg[2] \in RegisterNames THEN registers[arg[2]] ELSE 0
      [] arg[1] = "Value" -> arg[2]

\* an argument whose resolution succeeds in the current state
ArgResolves(arg) == PlainArgument(arg) \/ (arg[1] = "Stack" /\ memory # <<>>)

\* the instruction an If finally dispatches; <<"Fail">> when a condition fails
RECURSIVE Leaf(_)
Leaf(instruction) ==
    IF instruction[1] # "If"
    THEN instruction
    ELSE IF ~ArgResolves(instruction[2])
         THEN <<"Fail">>
         ELSE IF ArgNow(instruction[2]) >= 1
              THEN Leaf(instruction[3])
              ELSE Leaf(instruction[4])

\* the instruction the loop is about to fetch
Fetching == instruction_cache[instruction_pointer + 1]

\* this step is an iteration of the loop
Stepped == Len(fetched') = Len(fetched) + 1

ReturnAddresses(m) == [k \in 1..Len(m) |-> m[k].return_address]

Last(seq) == seq[Len(seq)]

Positions(seq) == {seq[k] : k \in 1..Len(seq)}

----------------------------------------------------------------------------
(* C1: after any sequence of loads, every entry name -> p of the function  *)
(* table points at the position p of the accumulated program where         *)
(* Fn(name) stands.                                                        *)
C1_TablePointsAtMarkers ==
    \A name \in DOMAIN function_table :
        /\ function_table[name] < Len(instruction_cache)
        /\ instruction_cache[function_table[name] + 1] = Fn(name)

----------------------------------------------------------------------------
(* C2: a Call dispatched at position p (directly or as the chosen branch   *)
(* of an If) pushes a frame that records p; no other instruction adds,     *)
(* removes or rewrites a return address; a Ret pops the most recent frame  *)
(* and the loop resumes at the recorded position plus one, which is the    *)
(* next position fetched.                                                  *)
C2_CallReturnResume ==
    [][Stepped =>
         /\ fetched' = Append(fetched, instruction_pointer)
         /\ (Leaf(Fetching)[1] = "Call" /\ panic' = "none") =>
                ReturnAddresses(memory') = <<instruction_pointer>> \o ReturnAddresses(memory)
         /\ (Leaf(Fetching)[1] = "Ret" /\ memory # <<>>) =>
                /\ panic' = "none"
                /\ pc' = "running"
                /\ ReturnAddresses(memory') = Tail(ReturnAddresses(memory))
                /\ instruction_pointer' = memory[1].return_address + 1
         /\ (Leaf(Fetching)[1] \notin {"Call", "Ret"}) =>
                ReturnAddresses(memory') = ReturnAddresses(memory)]_vars

\* the innermost recursive call of RecursiveProgram, made by the If at
\* position 7, has returned: the loop resumes at 8 with three frames left
C2_Witness ==
    /\ instruction_cache = RecursiveProgram \o <<Call("main")>>
    /\ pc = "running"
    /\ fetched # <<>>
    /\ Last(fetched) = 7
    /\ Last(trace) = <<7, 1>>
    /\ instruction_pointer = 8
    /\ ReturnAddresses(memory) = <<7, 1, 9>>

----------------------------------------------------------------------------
(* C3: execute on a state whose function table has no "main" panics        *)
(* before anything else: the program is not extended, nothing is fetched,  *)
(* nothing is printed, and nothing happens afterwards.                     *)
C3_MissingMain ==
    [][/\ panic # "MissingMainFunction"
       /\ (pc = "loading" /\ pc' # "loading" /\ "main" \notin DOMAIN function_table) =>
              /\ pc' = "panicked"
              /\ panic' = "MissingMainFunction"
              /\ instruction_cache' = instruction_cache
              /\ fetched' = <<>>
              /\ trace' = <<>>]_vars

C3_Witness ==
    /\ panic = "MissingMainFunction"
    /\ instruction_cache = HelperProgram
    /\ fetched = <<>>
    /\ trace = <<>>

----------------------------------------------------------------------------
(* C4: Add, Sub and Eq of values a and b in 0..65535 never fail: Result    *)
(* becomes (a + b) mod 2^16, (a - b) mod 2^16, or 1 when a = b and 0       *)
(* otherwise.                                                              *)
C4_ArithmeticWraps ==
    [][(/\ Stepped
        /\ Fetching[1] \in {"Add", "Sub", "Eq"}
        /\ ArgResolves(Fetching[2])
        /\ ArgResolves(Fetching[3])) =>
           LET a == ArgNow(Fetching[2])
               b == ArgNow(Fetching[3])
           IN /\ panic' = "none"
              /\ Fetching[1] = "Add" => registers'.res = (a + b) % U16Modulus
              /\ Fetching[1] = "Sub" => registers'.res = (a - b) % U16Modulus
              /\ Fetching[1] = "Eq" => registers'.res = (IF a = b THEN 1 ELSE 0)]_vars

----------------------------------------------------------------------------
(* C5 as stated: AddProgram loaded once runs to the end by pointer out of  *)
(* range, the synthetic call at 3 is fetched first, the last line carries  *)
(* Result = 2, and the instructions executed are the synthetic call, the   *)
(* marker, the add and the return.                                         *)
C5_AddProgramCountsMarker ==
    (instruction_cache = AddProgram \o <<Call("main")>> /\ pc # "running") =>
        /\ pc = "done"
        /\ status # "Exiting"
        /\ instruction_pointer >= Len(instruction_cache)
        /\ fetched[1] = 3
        /\ instruction_cache[Last(fetched) + 1] = Ret
        /\ Last(trace)[2] = 2
        /\ Positions(fetched) = {3, 0, 1, 2}
        /\ Len(fetched) = 4

(* C5 amended: the same run executes three instructions, the synthetic     *)
(* call at 3, the add at 1 and the return at 2; the marker at 0 is skipped *)
(* by the landing rule and never fetched.                                  *)
C5_AddProgramRun ==
    (instruction_cache = AddProgram \o <<Call("main")>> /\ pc # "running") =>
        /\ pc = "done"
        /\ status # "Exiting"
        /\ instruction_pointer >= Len(instruction_cache)
        /\ fetched = <<3, 1, 2>>
        /\ instruction_cache[Last(fetched) + 1] = Ret
        /\ Len(trace) = 3
        /\ Last(trace)[2] = 2

C5_Witness ==
    /\ instruction_cache = AddProgram \o <<Call("main")>>
    /\ pc = "done"
    /\ loads = 1
    /\ trace = <<<<0, 0>>, <<1, 2>>, <<3, 2>>>>

----------------------------------------------------------------------------
\* new is old followed by zeros
ZeroExtends(old, new) ==
    /\ Len(new) >= Len(old)
    /\ \A k \in 1..Len(new) : new[k] = (IF k <= Len(old) THEN old[k] ELSE 0)

(* C6: a step that dispatches Add, Sub or Eq (directly or as the chosen    *)
(* branch of an If) changes no register but res: a, b, c, d, the status,   *)
(* the depth of the call stack and every return address are kept, the      *)
(* frames below the top are kept, the locals of the top frame are at most  *)
(* zero-extended, and the pointer printed after the dispatch is the fetch  *)
(* position, which the loop then advances by one.                          *)
C6_ArithmeticFrame ==
    [][(Stepped /\ Leaf(Fetching)[1] \in {"Add", "Sub", "Eq"}) =>
         /\ \A r \in {"a", "b", "c", "d"} : registers'[r] = registers[r]
         /\ status' = status
         /\ ReturnAddresses(memory') = ReturnAddresses(memory)
         /\ memory # <<>> =>
                /\ Tail(memory') = Tail(memory)
                /\ ZeroExtends(memory[1].data, memory'[1].data)
         /\ panic' = "none" =>
                /\ Last(trace')[1] = instruction_pointer
                /\ instruction_pointer' = instruction_pointer + 1
         /\ panic' # "none" => instruction_pointer' = instruction_pointer]_vars

C6_Witness ==
    /\ instruction_cache = <<Fn("main"), Add(Stack(3), Register("b"))>>
    /\ fetched = <<1>>
    /\ panic = "none"
    /\ registers = [a |-> 5, b |-> 65535, c |-> 1, d |-> 2, res |-> 65535]
    /\ ReturnAddresses(memory) = <<1, 0>>
    /\ memory[1].data = <<65535, 3, 0, 0>>
    /\ trace = <<<<1, 65535>>>>

----------------------------------------------------------------------------
(* C7: in the active frame, reading slot i at or beyond the length of the  *)
(* locals returns 0 and leaves them zero-extended to length exactly i + 1; *)
(* writing v to slot i extends them the same way and then slot i holds v,  *)
(* the other new slots hold 0 and the old slots keep their values; a Mov   *)
(* to a slot does exactly that; and the locals of a frame never shrink.    *)
C7_SlotExtension ==
    /\ [](memory # <<>> =>
            \A i \in 0..(MaxSlot + 2), v \in {0, 9, 65535} :
                LET old == memory[1].data
                    r == fetch_argument_value(Cpu, Stack(i))
                    w == write_data(Cpu, i, v)
                    new == w.memory[1].data
                IN /\ r.s.panic = "none"
                   /\ w.panic = "none"
                   /\ i >= Len(old) =>
                          /\ r.value = 0
                          /\ Len(r.s.memory[1].data) = i + 1
                          /\ Len(new) = i + 1
                   /\ i < Len(old) =>
                          /\ r.value = old[i + 1]
                          /\ Len(new) = Len(old)
                   /\ ZeroExtends(old, r.s.memory[1].data)
                   /\ new[i + 1] = v
                   /\ \A k \in 1..Len(new) :
                          k # i + 1 => new[k] = (IF k <= Len(old) THEN old[k] ELSE 0)
                   /\ Tail(r.s.memory) = Tail(memory)
                   /\ Tail(w.memory) = Tail(memory))
    /\ [][/\ \A k \in 1..Len(memory) :
                k <= Len(memory') =>
                    Len(memory'[Len(memory') - k + 1].data)
                        >= Len(memory[Len(memory) - k + 1].data)
          /\ (/\ Stepped
              /\ memory # <<>>
              /\ Fetching[1] = "Mov"
              /\ Fetching[3][1] = "Stack"
              /\ ArgResolves(Fetching[2])) =>
                 LET old == IF Fetching[2][1] = "Stack" /\ Fetching[2][2] >= Len(memory[1].data)
                            THEN memory[1].data
                                   \o [k \in 1..(Fetching[2][2] + 1 - Len(memory[1].data)) |-> 0]
                            ELSE memory[1].data
                     new == memory'[1].data
                     i == Fetching[3][2]
                 IN /\ Len(new) = (IF i >= Len(old) THEN i + 1 ELSE Len(old))
                    /\ new[i + 1] = ArgNow(Fetching[2])
                    /\ \A k \in 1..Len(new) :
                           k # i + 1 => new[k] = (IF k <= Len(old) THEN old[k] ELSE 0)]_vars

\* writeSlot(3, 9) on a fresh frame: slots 0-2 read 0 and slot 3 reads 9
C7_Witness ==
    /\ instruction_cache = <<Fn("main"), Mov(Value(9), Stack(3))>>
    /\ fetched = <<1>>
    /\ panic = "none"
    /\ memory = <<[return_address |-> 0, data |-> <<0, 0, 0, 9>>]>>

----------------------------------------------------------------------------
\* the instruction reaches a Ret or a slot access before anything else fails
RECURSIVE NeedsFrame(_)
NeedsFrame(instruction) ==
    CASE instruction[1] \in {"Add", "Sub", "Eq", "Mov"} ->
           \/ instruction[2][1] = "Stack"
           \/ PlainArgument(instruction[2]) /\ instruction[3][1] = "Stack"
      [] instruction[1] = "Ret" -> TRUE
      [] instruction[1] = "If" ->
           \/ instruction[2][1] = "Stack"
           \/ /\ PlainArgument(instruction[2])
              /\ NeedsFrame(IF ArgNow(instruction[2]) >= 1
                            THEN instruction[3]
                            ELSE instruction[4])
      [] OTHER -> FALSE

(* C8: with an empty call stack, a step that reaches a Ret, a slot read or *)
(* a slot write fails with EmptyCallStack: no frame is created, nothing is *)
(* printed, and the pointer, the registers and the status are unchanged.   *)
C8_EmptyCallStack ==
    [][(Stepped /\ memory = <<>> /\ NeedsFrame(Fetching)) =>
         /\ panic' = "EmptyCallStack"
         /\ pc' = "panicked"
         /\ memory' = <<>>
         /\ instruction_pointer' = instruction_pointer
         /\ registers' = registers
         /\ status' = status
         /\ trace' = trace]_vars

C8_Witness ==
    /\ panic = "EmptyCallStack"
    /\ pc = "panicked"
    /\ memory = <<>>
    /\ instruction_cache = <<Fn("main"), Mov(Register("b"), Stack(0))>>
    /\ fetched = <<1>>
    /\ instruction_pointer = 1
    /\ trace = <<>>

----------------------------------------------------------------------------
(* C9: a step that dispatches Call(name) with name absent from the         *)
(* function table fails with UnknownFunction without printing a line, the  *)
(* lines printed before are kept, and nothing happens after a failure.     *)
C9_UnknownFunction ==
    [][/\ pc # "panicked"
       /\ (/\ Stepped
           /\ Leaf(Fetching)[1] = "Call"
           /\ Leaf(Fetching)[2] \notin DOMAIN function_table) =>
              /\ panic' = "UnknownFunction"
              /\ pc' = "panicked"
              /\ trace' = trace
              /\ fetched' = Append(fetched, instruction_pointer)]_vars

C9_Witness ==
    /\ panic = "UnknownFunction"
    /\ pc = "panicked"
    /\ instruction_cache = UnknownCallProgram \o <<Call("main")>>
    /\ fetched = <<4, 1, 2>>
    /\ trace = <<<<0, 0>>, <<1, 12>>>>

----------------------------------------------------------------------------
(* C10: the status is NotStarted until execute starts, Running in every    *)
(* state in which an instruction is fetched and dispatched, becomes        *)
(* Exiting only by dispatching Exit, and once Exiting never changes.       *)
C10_StatusLifecycle ==
    [][/\ pc = "loading" => status = "NotStarted"
       /\ Stepped => status = "Running"
       /\ (status # "Exiting" /\ status' = "Exiting") =>
              (Stepped /\ Leaf(Fetching) = Exit)
       /\ status = "Exiting" => status' = "Exiting"]_vars

----------------------------------------------------------------------------
(* C11: a step that dispatches Exit (directly or as the chosen branch of   *)
(* an If) sets the status to Exiting and prints its line; from then on no  *)
(* instruction is fetched, whatever the pointer is, and the registers, the *)
(* call stack, the pointer and the printed lines stay as they are; the     *)
(* loop is left only with the pointer at or past the end of the program or *)
(* with the status Exiting.                                                *)
C11_ExitStops ==
    [][/\ (Stepped /\ Leaf(Fetching) = Exit) =>
              /\ status' = "Exiting"
              /\ panic' = "none"
              /\ trace' = Append(trace, <<instruction_pointer, registers.res>>)
       /\ status = "Exiting" =>
              /\ ~Stepped
              /\ pc' = "done"
              /\ registers' = registers
              /\ memory' = memory
              /\ trace' = trace
              /\ instruction_pointer' = instruction_pointer
       /\ (pc = "running" /\ pc' = "done") =>
              \/ instruction_pointer >= Len(instruction_cache)
              \/ status = "Exiting"]_vars

\* ExitProgram stopped by the Exit branch of the If at 2, pointer in range
C11_Witness ==
    /\ instruction_cache = ExitProgram \o <<Call("main")>>
    /\ pc = "done"
    /\ status = "Exiting"
    /\ instruction_pointer = 3
    /\ fetched = <<5, 1, 2>>
    /\ trace = <<<<0, 0>>, <<1, 0>>, <<2, 0>>>>
    /\ registers.b = 2
    /\ ReturnAddresses(memory) = <<5>>

----------------------------------------------------------------------------
(* C12: for every address n in 0..65535, a step that dispatches Goto(n)    *)
(* (directly or as the chosen branch of an If) does not fail and leaves    *)
(* the pointer at n + 1, so that the next fetch is at n + 1 or the loop    *)
(* ends by pointer out of range; it changes no register and no frame       *)
(* (apart from the zero-extension done by the condition of an If).         *)
C12_GotoLanding ==
    [][(Stepped /\ Leaf(Fetching)[1] = "Goto") =>
         /\ panic' = "none"
         /\ pc' = "running"
         /\ instruction_pointer' = Leaf(Fetching)[2] + 1
         /\ trace' = Append(trace, <<Leaf(Fetching)[2], registers.res>>)
         /\ registers' = registers
         /\ status' = status
         /\ ReturnAddresses(memory') = ReturnAddresses(memory)
         /\ memory # <<>> =>
                /\ Tail(memory') = Tail(memory)
                /\ ZeroExtends(memory[1].data, memory'[1].data)
         /\ Fetching[1] = "Goto" => memory' = memory]_vars

----------------------------------------------------------------------------
(* C13: a step that dispatches Call(name) with name in the function table  *)
(* (directly or as the chosen branch of an If) pushes exactly one frame,   *)
(* with empty locals and with the position fetched in this step as its     *)
(* return address; the registers are kept; the older frames are kept (a    *)
(* direct Call keeps them exactly, the condition of an enclosing If can    *)
(* only zero-extend the caller's locals); the line printed shows           *)
(* table[name] and the next fetch is at table[name] + 1.                   *)
C13_CallPushesFrame ==
    [][(/\ Stepped
        /\ Leaf(Fetching)[1] = "Call"
        /\ Leaf(Fetching)[2] \in DOMAIN function_table) =>
           LET target == function_table[Leaf(Fetching)[2]]
           IN /\ panic' = "none"
              /\ pc' = "running"
              /\ Len(memory') = Len(memory) + 1
              /\ memory'[1] = [return_address |-> instruction_pointer, data |-> <<>>]
              /\ ReturnAddresses(Tail(memory')) = ReturnAddresses(memory)
              /\ Fetching[1] = "Call" => Tail(memory') = memory
              /\ memory # <<>> =>
                     /\ Tail(Tail(memory')) = Tail(memory)
                     /\ ZeroExtends(memory[1].data, memory'[2].data)
              /\ registers' = registers
              /\ status' = status
              /\ trace' = Append(trace, <<target, registers.res>>)
              /\ instruction_pointer' = target + 1]_vars

\* the recursive Call("rec") chosen by the If at position 7 of RecursiveProgram
C13_Witness ==
    /\ instruction_cache = RecursiveProgram \o <<Call("main")>>
    /\ pc = "running"
    /\ fetched = <<9, 1, 4, 5, 6, 7>>
    /\ Last(trace) = <<3, 0>>
    /\ instruction_pointer = 4
    /\ memory = <<[return_address |-> 7, data |-> <<>>],
                  [return_address |-> 1, data |-> <<>>],
                  [return_address |-> 9, data |-> <<>>]>>

----------------------------------------------------------------------------
\* the CPU once the argument has been resolved: the locals of the top frame
\* zero-extended up to the slot the argument names
CpuAfterResolving(arg) ==
    IF arg[1] = "Stack" /\ memory # <<>> /\ arg[2] >= Len(memory[1].data)
    THEN [Cpu EXCEPT !.memory[1].data =
              memory[1].data \o [k \in 1..(arg[2] + 1 - Len(memory[1].data)) |-> 0]]
    ELSE Cpu

(* C14: a step that fetches If(cond, first, second) whose cond resolves    *)
(* has exactly the effect of dispatching first when cond >= 1 and second   *)
(* when cond = 0, on the state left by resolving cond: the same registers, *)
(* call stack, status and failure, one line printed and one advance of the *)
(* pointer for the whole If, whatever the branch is (If, Ret, Goto, Call,  *)
(* Exit, Add).                                                             *)
C14_IfDispatchesOneBranch ==
    [][(Stepped /\ Fetching[1] = "If" /\ ArgResolves(Fetching[2])) =>
         LET chosen == IF ArgNow(Fetching[2]) >= 1 THEN Fetching[3] ELSE Fetching[4]
             r == handle_instruction(CpuAfterResolving(Fetching[2]), chosen)
         IN /\ Len(fetched') = Len(fetched) + 1
            /\ registers' = r.registers
            /\ memory' = r.memory
            /\ status' = r.status
            /\ r.panic # "none" =>
                   /\ panic' = r.panic
                   /\ trace' = trace
                   /\ instruction_pointer' = r.instruction_pointer
            /\ r.panic = "none" =>
                   /\ trace' = Append(trace, <<r.instruction_pointer, r.registers.res>>)
                   /\ r.instruction_pointer + 1 < U16Modulus =>
                          /\ instruction_pointer' = r.instruction_pointer + 1
                          /\ panic' = "none"]_vars

\* If(Value(2), If(Stack(0), Ret, Call("nope")), Exit) on the locals <<5>>:
\* the inner If is dispatched and returns to 0, and the loop advances to 1
C14_Witness ==
    /\ instruction_cache =
           <<Fn("main"), If(Value(2), If(Stack(0), Ret, Call("nope")), Exit)>>
    /\ fetched = <<1>>
    /\ panic = "none"
    /\ status = "NotStarted"
    /\ memory = <<>>
    /\ trace = <<<<0, 7>>>>
    /\ instruction_pointer = 1

----------------------------------------------------------------------------
(* C15: a step that fetches Mov(src, dst) whose src resolves: with dst one *)
(* of the five registers it sets that register to the value of src and     *)
(* keeps every other register, res included; with dst a slot of the active *)
(* frame it stores the value there and keeps every register; with dst a    *)
(* literal it fails with InvalidMovDestination, prints nothing, and keeps  *)
(* every register and every slot value (resolving src can only zero-extend *)
(* the locals).                                                            *)
C15_MovDestination ==
    [][(Stepped /\ Fetching[1] = "Mov" /\ ArgResolves(Fetching[2])) =>
         LET value == ArgNow(Fetching[2])
             dst == Fetching[3]
         IN /\ (dst[1] = "Register" /\ dst[2] \in RegisterNames) =>
                   /\ panic' = "none"
                   /\ registers'[dst[2]] = value
                   /\ \A r \in RegisterNames \ {dst[2]} : registers'[r] = registers[r]
                   /\ memory' = CpuAfterResolving(Fetching[2]).memory
            /\ (dst[1] = "Stack" /\ memory # <<>>) =>
                   /\ panic' = "none"
                   /\ registers' = registers
                   /\ memory'[1].data[dst[2] + 1] = value
                   /\ Tail(memory') = Tail(memory)
                   /\ memory'[1].return_address = memory[1].return_address
            /\ dst[1] = "Value" =>
                   /\ panic' = "InvalidMovDestination"
                   /\ pc' = "panicked"
                   /\ trace' = trace
                   /\ registers' = registers
                   /\ memory' = CpuAfterResolving(Fetching[2]).memory
                   /\ instruction_pointer' = instruction_pointer]_vars

\* Mov(Register("b"), Register("a")) with res = 7: a becomes 65535, res stays 7
C15_Witness ==
    /\ instruction_cache = <<Fn("main"), Mov(Register("b"), Register("a"))>>
    /\ fetched = <<1>>
    /\ panic = "none"
    /\ registers = [a |-> 65535, b |-> 65535, c |-> 1, d |-> 2, res |-> 7]
    /\ trace = <<<<1, 7>>>>

----------------------------------------------------------------------------
(* C16: slot reads and writes touch only the top frame.  In every step the *)
(* stack grows by one frame, keeps its depth or loses its top frame.  A    *)
(* pushed frame has empty locals whatever the caller's locals are, and the *)
(* frames under the caller are kept.  A step that keeps the depth keeps    *)
(* every frame under the top one, locals and return address.  A Ret leaves *)
(* exactly the frames that were under the callee, so the caller finds its  *)
(* locals as they were when the Call was dispatched.                       *)
C16_OnlyTopFrame ==
    [][/\ Len(memory') \in {Len(memory) + 1, Len(memory), Len(memory) - 1}
       /\ Len(memory') = Len(memory) + 1 =>
              /\ memory'[1].data = <<>>
              /\ memory # <<>> =>
                     /\ Tail(Tail(memory')) = Tail(memory)
                     /\ memory'[2].return_address = memory[1].return_address
                     /\ ZeroExtends(memory[1].data, memory'[2].data)
              /\ (Stepped /\ Fetching[1] = "Call") => Tail(memory') = memory
       /\ (Len(memory') = Len(memory) /\ memory # <<>>) =>
              /\ Tail(memory') = Tail(memory)
              /\ memory'[1].return_address = memory[1].return_address
       /\ Len(memory') = Len(memory) - 1 => memory' = Tail(memory)]_vars

\* NestedProgram without overflow checks: main wrote 7 to its slot 1, f and g
\* wrote to their own slots 3 and 0, and back in main slot 1 still reads 7
C16_Witness ==
    /\ instruction_cache = NestedProgram \o <<Call("main")>>
    /\ pc = "running"
    /\ fetched = <<15, 1, 2, 7, 8, 9, 12, 13, 10, 3>>
    /\ registers.a = 7
    /\ memory = <<[return_address |-> 15, data |-> <<0, 7>>]>>

----------------------------------------------------------------------------
(* C17: every step that dispatches an instruction without failing prints   *)
(* exactly one line, and at termination the line printed after the loop    *)
(* reports a count of executed instructions that is the number of          *)
(* instructions dispatched, which is the number of lines printed.          *)
C17_CountReported ==
    /\ pc \in {"running", "done"} => Len(trace) = Len(fetched)
    /\ pc = "done" =>
           /\ "instructions" \in DOMAIN summary
           /\ summary.instructions = Len(fetched)

----------------------------------------------------------------------------
(* C18: inside execute the first step dispatches the synthetic             *)
(* Call("main") on the empty stack, every later step dispatches with a     *)
(* frame on the stack, the stack becomes empty only by the Ret that pops   *)
(* the frame of the synthetic call, after which the pointer is the length  *)
(* of the program and the loop ends, and EmptyCallStack is never raised.   *)
C18_FrameWhileRunning ==
    /\ [](panic # "EmptyCallStack")
    /\ []((pc = "running" /\ fetched # <<>> /\ memory = <<>>) =>
              instruction_pointer = Len(instruction_cache))
    /\ [][/\ (Stepped /\ fetched = <<>>) =>
                 /\ memory = <<>>
                 /\ instruction_pointer = Len(instruction_cache) - 1
                 /\ Fetching = Call("main")
                 /\ memory' # <<>>
          /\ (Stepped /\ fetched # <<>>) => memory # <<>>
          /\ (Stepped /\ memory' = <<>>) =>
                 /\ Leaf(Fetching) = Ret
                 /\ memory = <<[return_address |-> Len(instruction_cache) - 1,
                                data |-> memory[1].data]>>
                 /\ panic' = "none"
                 /\ instruction_pointer' = Len(instruction_cache)]_vars

\* the counting program after its last Ret: empty stack, pointer at the end
C18_Witness ==
    /\ instruction_cache = CountingProgram \o <<Call("main")>>
    /\ pc = "running"
    /\ Len(fetched) = 41
    /\ Last(fetched) = 4
    /\ memory = <<>>
    /\ instruction_pointer = 6
    /\ panic = "none"

----------------------------------------------------------------------------
\* the instruction is a Call or an If with a Call in one of its branches
RECURSIVE ContainsCall(_)
ContainsCall(instruction) ==
    \/ instruction[1] = "Call"
    \/ /\ instruction[1] = "If"
       /\ ContainsCall(instruction[3]) \/ ContainsCall(instruction[4])

(* C19: the call stack is empty when execute starts and each step changes  *)
(* its depth by +1 when it dispatches a Call, by -1 when it dispatches a   *)
(* Ret and by 0 otherwise, so the depth is the number of Calls dispatched  *)
(* minus the number of Rets dispatched; the bottom frame's return address  *)
(* is the position of the synthetic Call("main"), the last of the program; *)
(* and every frame's return address is a position of the program that      *)
(* holds a Call or an If with a Call in one of its branches.               *)
C19_StackAccounting ==
    /\ [](pc = "loading" => memory = <<>>)
    /\ [](memory # <<>> =>
              /\ memory[Len(memory)].return_address = Len(instruction_cache) - 1
              /\ \A k \in 1..Len(memory) :
                     /\ memory[k].return_address < Len(instruction_cache)
                     /\ ContainsCall(instruction_cache[memory[k].return_address + 1]))
    /\ [][Stepped =>
              Len(memory') - Len(memory) =
                  (IF Leaf(Fetching)[1] = "Call" THEN 1
                   ELSE IF Leaf(Fetching)[1] = "Ret" /\ memory # <<>> THEN -1
                   ELSE 0)]_vars

\* four frames deep in RecursiveProgram: two return addresses are the If at 7
C19_Witness ==
    /\ instruction_cache = RecursiveProgram \o <<Call("main")>>
    /\ pc = "running"
    /\ ReturnAddresses(memory) = <<7, 7, 1, 9>>
    /\ instruction_cache[8] = If(Register("res"), Ret, Call("rec"))
    /\ registers.a = 3

----------------------------------------------------------------------------
\* the k-th fetch and the k-th printed line of the counting program: the
\* synthetic call, then rounds j = 1..10 of Add, Mov, Eq, If at 1, 2, 3, 4
CountingRound(k) == ((k - 2) \div 4) + 1

CountingFetch(k) == IF k = 1 THEN 5 ELSE 1 + ((k - 2) % 4)

CountingLine(k) ==
    LET j == CountingRound(k)
        p == CountingFetch(k)
        equal == IF j = 10 THEN 1 ELSE 0
    IN CASE k = 1 -> <<0, 0>>
         [] k > 1 /\ p \in {1, 2} -> <<p, j>>
         [] k > 1 /\ p = 3 -> <<3, equal>>
         [] k > 1 /\ p = 4 -> <<IF j = 10 THEN 5 ELSE 0, equal>>

====
